---- MODULE Spec2Model ----
(***************************************************************************)
(* kubectl-watchdiff: the watch-to-diff engine of cmd/kubectl-watchdiff.   *)
(* The model follows config.Run: the selection check, the watch            *)
(* subscription, the UntilWithoutRetry loop with its callback, the         *)
(* interrupt handler, the per-identity diffObj cache, the marshal closure  *)
(* and the unified-diff rendering with its colouring.                      *)
(***************************************************************************)
EXTENDS Integers, Sequences, FiniteSets, TLC

VARIABLES
    opt,        \* the options the flags were parsed into
    pc,         \* position of newCommand's RunE: Complete, then config.Run
    r,          \* the resource.Result of ResourceBuilder.Do(): [err, infos]
    cfg,        \* the config: JSONPaths, IngoreLabelKeys, IgnoreAnnotationKeys
    ch,         \* events pending on w.ResultChan()
    closed,     \* the result channel has been closed by the watch
    sent,       \* number of events the watch has sent so far
    cancelled,  \* ctx is cancelled (ctx.Done() is closed)
    cur,        \* the event handed to the callback, <<>> when there is none
    cache,      \* map[string]*diffObj, a function from the uids present
    out,        \* lines written to o.Out
    errOut,     \* objects written to o.ErrOut
    result,     \* what Run returned, or how the process ended
    stopBy,     \* the branch that ended the run
    last,       \* the last event the callback handled and the state it found
    lastType,   \* per uid, the type of the last event the callback handled
    hist        \* the events the callback handled, in order

vars == <<opt, pc, r, cfg, ch, closed, sent, cancelled, cur, cache, out, errOut,
          result, stopBy, last, lastType, hist>>

(***************************************************************************)
(* Bounds of the model.                                                    *)
(***************************************************************************)
MaxEvents == 3
MaxInfos == 3
MaxPaths == 2

(***************************************************************************)
(* Small helpers on sequences.                                             *)
(***************************************************************************)
RECURSIVE Flatten(_)
Flatten(ss) == IF ss = <<>> THEN <<>> ELSE Head(ss) \o Flatten(Tail(ss))

Range(s) == {s[i] : i \in DOMAIN s}

Max(a, b) == IF a >= b THEN a ELSE b
Min(a, b) == IF a <= b THEN a ELSE b

(***************************************************************************)
(* Resources.  An unstructured.Unstructured is a record of the fields the  *)
(* program reads or strips; labels and annotations are [has, kv]: has says *)
(* whether the map is present in metadata, kv is the map.  A payload that  *)
(* is not an *unstructured.Unstructured (a *metav1.Status built by the     *)
(* client for a stream it cannot decode) is NotUnstructured.               *)
(***************************************************************************)
LastApplied == "kubectl.kubernetes.io/last-applied-configuration"

NotUnstructured == [unstructured |-> FALSE, status |-> "Failure"]

NoMap == [has |-> FALSE, kv |-> <<>>]

MapOf(keys, val) == [has |-> TRUE, kv |-> [k \in keys |-> val]]

\* containers is the list of spec.containers[].name, empty when the payload
\* has no spec.
Unstructured(uid, rv, kind, ns, name, managed, labels, annos, phase) ==
    [unstructured |-> TRUE, uid |-> uid, resourceVersion |-> rv, kind |-> kind,
     namespace |-> ns, name |-> name, managedFields |-> managed,
     labels |-> labels, annotations |-> annos, phase |-> phase, containers |-> <<>>]

WithContainers(obj, names) == [obj EXCEPT !.containers = names]

\* An annotation value of two paragraphs: "a", an empty line, "b".
Paragraphs == "a\\n\\nb"

\* The order yaml.v2 writes map keys in (sorted), for the keys of the model.
LabelKeyOrder == <<"app", "x">>
AnnoKeyOrder == <<LastApplied, "note">>
PathOrder == <<"$.metadata.labels", "$.metadata.resourceVersion",
               "$.spec.containers[*].name", "$.spec", "$.status">>

(***************************************************************************)
(* Accessors of unstructured.Unstructured used by the marshal closure.     *)
(***************************************************************************)
SetManagedFieldsNil(obj) == [obj EXCEPT !.managedFields = FALSE]

\* Mutant: the resource version is left in the object.
SetResourceVersionKept(obj) == obj

\* SetResourceVersion("") stores the empty string under metadata.resourceVersion.
SetResourceVersionEmpty(obj) == [obj EXCEPT !.resourceVersion = ""]

\* GetLabels/GetAnnotations give nil for an absent map; delete on nil is a
\* no-op and Set...(nil) removes the field, so an absent map stays absent.
DeleteKeys(m, keys) ==
    IF m.has
    THEN [has |-> TRUE, kv |-> [k \in (DOMAIN m.kv) \ keys |-> m.kv[k]]]
    ELSE m

(***************************************************************************)
(* yaml.Marshal of the *Unstructured: a sequence of lines, each line a     *)
(* sequence of string tokens.  The struct has the one field Object, which  *)
(* yaml.v2 writes under the key "object".                                  *)
(***************************************************************************)
\* A string with line breaks is written as a literal block scalar, its empty
\* line without indentation.
ValueLines(indent, k, v) ==
    IF v = Paragraphs
    THEN << <<indent, "  ", k, ": ", "|-">>, <<indent, "    ", "a">>, <<>>,
            <<indent, "    ", "b">> >>
    ELSE << <<indent, "  ", k, ": ", v>> >>

MapLines(indent, name, m, order) ==
    IF ~m.has THEN <<>>
    ELSE IF DOMAIN m.kv = {} THEN << <<indent, name, ": {}">> >>
    ELSE << <<indent, name, ":">> >> \o
         Flatten([i \in 1..Len(SelectSeq(order, LAMBDA k : k \in DOMAIN m.kv)) |->
                    LET k == SelectSeq(order, LAMBDA x : x \in DOMAIN m.kv)[i]
                    IN ValueLines(indent, k, m.kv[k])])

SpecLines(indent, obj) ==
    IF obj.containers = <<>> THEN <<>>
    ELSE << <<indent, "spec:">>, <<indent, "  containers:">> >> \o
         [i \in 1..Len(obj.containers) |-> <<indent, "  - name: ", obj.containers[i]>>]

StatusLines(indent, obj) ==
    IF obj.phase = "" THEN <<>>
    ELSE << <<indent, "status:">>, <<indent, "  phase: ", obj.phase>> >>

ObjectLines(obj) ==
    << <<"object:">>,
       <<"  apiVersion: ", "v1">>,
       <<"  kind: ", obj.kind>>,
       <<"  metadata:">> >>
    \o MapLines("    ", "annotations", obj.annotations, AnnoKeyOrder)
    \o MapLines("    ", "labels", obj.labels, LabelKeyOrder)
    \o (IF obj.managedFields THEN << <<"    managedFields: ", "[...]">> >> ELSE <<>>)
    \o << <<"    name: ", obj.name>> >>
    \o (IF obj.namespace = "" THEN <<>> ELSE << <<"    namespace: ", obj.namespace>> >>)
    \o << <<"    resourceVersion: ", "'", obj.resourceVersion, "'">> >>
    \o << <<"    uid: ", obj.uid>> >>
    \o SpecLines("  ", obj)
    \o StatusLines("  ", obj)

\* jp.ParseString followed by Expr.String(): a bracketed child with a plain
\* name is written back in dot form; the other expressions print as given.
ExprString(path) == IF path = "$['status']" THEN "$.status" ELSE path

\* len(expr.Get(obj.Object)): the number of matches of the path on the object.
PathCount(expr, obj) ==
    CASE expr = "$.status" -> IF obj.phase # "" THEN 1 ELSE 0
      [] expr = "$.metadata.labels" -> IF obj.labels.has THEN 1 ELSE 0
      [] expr = "$.metadata.resourceVersion" -> 1
      [] expr = "$.spec" -> IF obj.containers # <<>> THEN 1 ELSE 0
      [] expr = "$.spec.containers[*].name" -> Len(obj.containers)
      [] OTHER -> 0

PathMatches(expr, obj) == PathCount(expr, obj) > 0

\* The entry newObj.Object["<fieldByJsonPath = expr>"] = result[0], as yaml.
PathLines(expr, obj) ==
    CASE expr = "$.status" ->
            << <<"  <fieldByJsonPath = ", expr, ">:">>,
               <<"    phase: ", obj.phase>> >>
      [] expr = "$.metadata.labels" ->
            IF DOMAIN obj.labels.kv = {}
            THEN << <<"  <fieldByJsonPath = ", expr, ">: {}">> >>
            ELSE << <<"  <fieldByJsonPath = ", expr, ">:">> >> \o
                 Tail(MapLines("  ", "", obj.labels, LabelKeyOrder))
      [] expr = "$.metadata.resourceVersion" ->
            << <<"  <fieldByJsonPath = ", expr, ">: ", "'", obj.resourceVersion, "'">> >>
      [] expr = "$.spec" ->
            << <<"  <fieldByJsonPath = ", expr, ">:">> >> \o Tail(SpecLines("  ", obj))
      [] expr = "$.spec.containers[*].name" ->
            << <<"  <fieldByJsonPath = ", expr, ">: ", obj.containers[1]>> >>
      [] OTHER -> <<>>

ProjectedLines(paths, obj) ==
    LET hit == SelectSeq(PathOrder, LAMBDA e : e \in Range(paths) /\ PathMatches(e, obj))
    IN IF hit = <<>> THEN << <<"object: {}">> >>
       ELSE << <<"object:">> >> \o Flatten([i \in 1..Len(hit) |-> PathLines(hit[i], obj)])

\* The redaction steps of the marshal closure, in the code's order.
Redact(c, obj) ==
    LET o1 == SetManagedFieldsNil(obj)
        o2 == SetResourceVersionEmpty(o1)
        o3 == [o2 EXCEPT !.labels = DeleteKeys(o2.labels, Range(c.IngoreLabelKeys))]
    IN [o3 EXCEPT !.annotations = DeleteKeys(o3.annotations, Range(c.IgnoreAnnotationKeys))]

\* Mutant: the entries are added to the snapshot instead of replacing it.
marshal_KeepsObject(c, obj) ==
    LET red == Redact(c, obj)
    IN IF Len(c.JSONPaths) > 0
       THEN ObjectLines(red) \o Tail(ProjectedLines(c.JSONPaths, red))
       ELSE ObjectLines(red)

marshal(c, obj) ==
    LET red == Redact(c, obj)
    IN IF Len(c.JSONPaths) > 0 THEN ProjectedLines(c.JSONPaths, red)
       ELSE ObjectLines(red)

(***************************************************************************)
(* The line diff.  myers.ComputeEdits gives a shortest edit script between *)
(* the lines of the two texts; it is computed here from the longest common *)
(* subsequence, one edit per deleted or inserted line, a deletion before   *)
(* an insertion at the same place.  An edit is [start, end, newText] with  *)
(* 0-based line indexes into the base text, as gotextdiff's spans.         *)
(***************************************************************************)
RECURSIVE LCSLen(_, _)
LCSLen(a, b) ==
    IF a = <<>> \/ b = <<>> THEN 0
    ELSE IF Head(a) = Head(b) THEN 1 + LCSLen(Tail(a), Tail(b))
    ELSE Max(LCSLen(Tail(a), b), LCSLen(a, Tail(b)))

RECURSIVE EditsFrom(_, _, _)
EditsFrom(i, a, b) ==
    IF a = <<>> /\ b = <<>> THEN <<>>
    ELSE IF a # <<>> /\ b # <<>> /\ Head(a) = Head(b)
         THEN EditsFrom(i + 1, Tail(a), Tail(b))
    ELSE IF b = <<>> \/ (a # <<>> /\ LCSLen(Tail(a), b) >= LCSLen(a, Tail(b)))
         THEN <<[start |-> i, end |-> i + 1, newText |-> <<>>]>>
              \o EditsFrom(i + 1, Tail(a), b)
    ELSE <<[start |-> i, end |-> i, newText |-> <<Head(b)>>]>>
         \o EditsFrom(i, a, Tail(b))

ComputeEdits(before, after) == EditsFrom(0, before, after)

(***************************************************************************)
(* gotextdiff.ToUnified: hunks with up to `edge` lines of context, joined  *)
(* when two edits are at most `gap` lines apart.                           *)
(***************************************************************************)
edge == 3
gap == edge * 2

\* addEqualLines(h, lines, start, end): the context lines start..end-1 that exist.
EqualLines(lines, start, end) ==
    [i \in 1..Max(0, Min(end, Len(lines)) - Max(start, 0)) |->
        [kind |-> " ", content |-> lines[Max(start, 0) + i]]]

NoHunk == [fromLine |-> 0, toLine |-> 0, lines |-> <<>>]

UnifiedStep(st, e, lines) ==
    LET opened ==
            IF st.hasH /\ e.start = st.last THEN st
            ELSE IF st.hasH /\ e.start <= st.last + gap
                 THEN [st EXCEPT !.h.lines = @ \o EqualLines(lines, st.last, e.start)]
            ELSE LET toLine == st.toLine + e.start - st.last
                     ctx == EqualLines(lines, e.start - edge, e.start)
                 IN [hunks |-> IF st.hasH
                               THEN Append(st.hunks,
                                      [st.h EXCEPT !.lines =
                                          @ \o EqualLines(lines, st.last, st.last + edge)])
                               ELSE st.hunks,
                     hasH |-> TRUE,
                     h |-> [fromLine |-> e.start + 1 - Len(ctx),
                            toLine |-> toLine + 1 - Len(ctx),
                            lines |-> ctx],
                     last |-> st.last,
                     toLine |-> toLine]
        dels == [i \in 1..(e.end - e.start) |->
                    [kind |-> "-", content |-> lines[e.start + i]]]
        ins == [i \in 1..Len(e.newText) |-> [kind |-> "+", content |-> e.newText[i]]]
    IN [opened EXCEPT !.h.lines = @ \o dels \o ins,
                      !.last = e.end,
                      !.toLine = @ + Len(e.newText)]

RECURSIVE UnifiedFold(_, _, _)
UnifiedFold(st, edits, lines) ==
    IF edits = <<>> THEN st
    ELSE UnifiedFold(UnifiedStep(st, Head(edits), lines), Tail(edits), lines)

\* The Unified value: [from, to, hunks].
ToUnified(from, to, lines, edits) ==
    IF edits = <<>> THEN [from |-> from, to |-> to, hunks |-> <<>>]
    ELSE LET st == UnifiedFold([hunks |-> <<>>, hasH |-> FALSE, h |-> NoHunk,
                                last |-> 0, toLine |-> 0], edits, lines)
         IN [from |-> from, to |-> to,
             hunks |-> Append(st.hunks,
                         [st.h EXCEPT !.lines =
                             @ \o EqualLines(lines, st.last, st.last + edge)])]

\* Unified.Format, as fmt.Sprint(unified) gives it: the lines of the text,
\* each a token sequence whose first token is the line's first character.
HunkCount(h, kinds) == Len(SelectSeq(h.lines, LAMBDA l : l.kind \in kinds))

HunkRange(sign, line, count) ==
    IF count > 1 THEN <<sign, ToString(line), ",", ToString(count)>>
    ELSE <<sign, ToString(line)>>

HunkText(h) ==
    << <<"@", "@">>
       \o HunkRange(" -", h.fromLine, HunkCount(h, {"-", " "}))
       \o HunkRange(" +", h.toLine, HunkCount(h, {"+", " "}))
       \o <<" @@">> >>
    \o [i \in 1..Len(h.lines) |-> <<h.lines[i].kind>> \o h.lines[i].content]

Format(u) ==
    IF Len(u.hunks) = 0 THEN <<>>
    ELSE << <<"-", "-- ">> \o u.from, <<"+", "++ ">> \o u.to >>
         \o Flatten([i \in 1..Len(u.hunks) |-> HunkText(u.hunks[i])])

(***************************************************************************)
(* diffObj.                                                                *)
(***************************************************************************)
\* path.Join: the non-empty elements, separated by "/".
RECURSIVE JoinTokens(_)
JoinTokens(elems) ==
    IF elems = <<>> THEN <<>>
    ELSE IF Len(elems) = 1 THEN elems
    ELSE <<Head(elems), "/">> \o JoinTokens(Tail(elems))

PathJoin(elems) == JoinTokens(SelectSeq(elems, LAMBDA x : x # ""))

getNamePath(o, rv) ==
    IF o.namespace = "" THEN PathJoin(<<o.kind, o.name, rv>>)
    ELSE PathJoin(<<o.kind, o.namespace, o.name, rv>>)

Green == "ESC[32m"
Red == "ESC[31m"
Reset == "ESC[0m"

\* Mutant: the length test of line 341 is missing.
Colour_NoLengthCheck(line) ==
    IF Len(line) > 0
    THEN IF line[1] = "+" THEN <<Green>> \o line \o <<Reset>>
         ELSE IF line[1] = "-" THEN <<Red>> \o line \o <<Reset>>
         ELSE line
    ELSE line

\* The colouring of one line of the split text (lines 341-349).
Colour(line) ==
    IF Len(line) > 1
    THEN IF line[1] = "+" THEN <<Green>> \o line \o <<Reset>>
         ELSE IF line[1] = "-" THEN <<Red>> \o line \o <<Reset>>
         ELSE line
    ELSE line

\* strings.Split(diffStr, "\n"): the text's lines and the empty string that
\* follows its last newline.
SplitLines(text) == text \o << <<>> >>

\* Mutant: the empty-diff return of lines 334-336 is missing.
diff_NoEmptyCheck(o, rvBase, baseYaml, rvDiff, diffYaml) ==
    LET base == IF rvBase = "" THEN "0" ELSE rvBase
        edits == ComputeEdits(baseYaml, diffYaml)
        unified == ToUnified(getNamePath(o, base), getNamePath(o, rvDiff), baseYaml, edits)
        diffStr == Format(unified)
    IN [i \in 1..Len(SplitLines(diffStr)) |-> Colour(SplitLines(diffStr)[i])]

\* diffObj.diff: the lines it writes to o.output.
diff(o, rvBase, baseYaml, rvDiff, diffYaml) ==
    LET base == IF rvBase = "" THEN "0" ELSE rvBase
        edits == ComputeEdits(baseYaml, diffYaml)
        unified == ToUnified(getNamePath(o, base), getNamePath(o, rvDiff), baseYaml, edits)
        diffStr == Format(unified)
    IN IF Len(diffStr) = 0 THEN <<>>
       ELSE [i \in 1..Len(SplitLines(diffStr)) |-> Colour(SplitLines(diffStr)[i])]

\* Mutant: the same-revision return of lines 312-315 is missing.
diffWithPrevious_NoRevisionCheck(c, o, newRV, newObj) ==
    LET newYaml == marshal(c, newObj)
    IN [obj |-> [o EXCEPT !.baseYAML = newYaml, !.rv = newRV],
        written |-> diff(o, o.rv, o.baseYAML, newRV, newYaml)]

\* Mutant: the revision and the baseline are stored only when lines were written.
diffWithPrevious_StoresOnOutput(c, o, newRV, newObj) ==
    LET newYaml == marshal(c, newObj)
        written == diff(o, o.rv, o.baseYAML, newRV, newYaml)
    IN IF o.rv = newRV \/ written = <<>> THEN [obj |-> o, written |-> <<>>]
       ELSE [obj |-> [o EXCEPT !.baseYAML = newYaml, !.rv = newRV], written |-> written]

\* Mutant: the assignment of line 319 is missing, the baseline is never stored.
diffWithPrevious_KeepsBaseline(c, o, newRV, newObj) ==
    LET newYaml == marshal(c, newObj)
    IN IF o.rv = newRV THEN [obj |-> o, written |-> <<>>]
       ELSE [obj |-> [o EXCEPT !.rv = newRV],
             written |-> diff(o, o.rv, o.baseYAML, newRV, newYaml)]

\* diffObj.diffWithPrevious: the diffObj afterwards and the lines written.
diffWithPrevious(c, o, newRV, newObj) ==
    LET newYaml == marshal(c, newObj)
    IN IF o.rv = newRV THEN [obj |-> o, written |-> <<>>]
       ELSE [obj |-> [o EXCEPT !.baseYAML = newYaml, !.rv = newRV],
             written |-> diff(o, o.rv, o.baseYAML, newRV, newYaml)]

\* The diffObj the callback builds for an object not in the cache (223-265).
NewDiffObj(obj) ==
    [kind |-> obj.kind, namespace |-> obj.namespace, name |-> obj.name,
     rv |-> "", baseYAML |-> <<>>]

(***************************************************************************)
(* Inputs: the command line, the resolved selection and the events of the  *)
(* watch.                                                                  *)
(***************************************************************************)
Options ==
    { [JSONPaths |-> <<>>, IgnoreLabelKeys |-> <<>>, IgnoreAnnotationKeys |-> <<>>],
      [JSONPaths |-> <<"$.status">>, IgnoreLabelKeys |-> <<>>, IgnoreAnnotationKeys |-> <<>>],
      [JSONPaths |-> <<"$[">>, IgnoreLabelKeys |-> <<>>, IgnoreAnnotationKeys |-> <<>>],
      [JSONPaths |-> <<"$.status", "$[">>, IgnoreLabelKeys |-> <<>>,
       IgnoreAnnotationKeys |-> <<>>] }

\* jp.ParseString succeeds on the path expressions PathCount knows.
Parses(path) == ExprString(path) \in Range(PathOrder)

GVKs == {"v1/Pod", "v1/Node"}

InfoSeqs == UNION {[1..n -> GVKs] : n \in 0..MaxInfos}

Results == {[err |-> TRUE, infos |-> <<>>]} \cup {[err |-> FALSE, infos |-> i] : i \in InfoSeqs}

NoResult == [err |-> FALSE, infos |-> <<>>]

\* The revisions of the added events: none, and the one the watch starts at.
RVs == {"", "0"}

\* Pod a, cluster-scoped in its payload, labelled x: 1.
PodA(rv, phase) ==
    Unstructured("u1", rv, "Pod", "", "a", FALSE, MapOf({"x"}, "1"), NoMap, phase)

\* Pod b in namespace ns, applied with kubectl and carrying managedFields.
PodB(rv) ==
    Unstructured("u2", rv, "Pod", "ns", "b", TRUE, NoMap,
                 [has |-> TRUE, kv |-> (LastApplied :> "{...}") @@ ("note" :> Paragraphs)],
                 "Pending")

\* The Status object of an error event, decoded as unstructured.
StatusObj == Unstructured("", "", "Status", "", "", FALSE, NoMap, NoMap, "")

Event(type, obj) == [type |-> type, object |-> obj]

Events ==
    {Event("ADDED", PodA(rv, "Pending")) : rv \in RVs}
    \cup {Event("MODIFIED", PodA(rv, "Running")) : rv \in {"0", "5"}}
    \cup {Event("MODIFIED", PodA("5", "Pending"))}
    \cup {Event("DELETED", PodA("5", "Running")), Event("DELETED", PodA("0", "Pending"))}
    \cup {Event("ADDED", PodB("0")), Event("DELETED", PodB("5"))}
    \cup {Event("ERROR", StatusObj), Event("ERROR", NotUnstructured),
          Event("ADDED", NotUnstructured)}

UIDs == {"u1", "u2"}

NoConfig == [JSONPaths |-> <<>>, IngoreLabelKeys |-> <<>>, IgnoreAnnotationKeys |-> <<>>]

NoLast == [n |-> 0, ev |-> Event("", NotUnstructured), cache |-> <<>>, out |-> <<>>,
           errOut |-> <<>>, cancelled |-> FALSE, lastType |-> [u \in UIDs |-> "none"]]

Init ==
    /\ pc = "Complete"
    /\ opt \in Options
    /\ r \in Results
    /\ cfg = NoConfig
    /\ ch = <<>>
    /\ closed = FALSE
    /\ sent = 0
    /\ cancelled = FALSE
    /\ cur = <<>>
    /\ cache = <<>>
    /\ out = <<>>
    /\ errOut = <<>>
    /\ result = "running"
    /\ stopBy = "none"
    /\ last = NoLast
    /\ lastType = [u \in UIDs |-> "none"]
    /\ hist = <<>>

(***************************************************************************)
(* options.Complete (lines 142-165).                                       *)
(***************************************************************************)
\* The config Complete returns when every path parses (lines 148-164).
CompleteConfig(o) ==
    [JSONPaths |-> [i \in DOMAIN o.JSONPaths |-> ExprString(o.JSONPaths[i])],
     IngoreLabelKeys |-> o.IgnoreLabelKeys,
     IgnoreAnnotationKeys |-> Append(o.IgnoreAnnotationKeys, LastApplied)]

\* Mutant: only the first path is parsed before the config is built.
Complete_FirstPathOnly ==
    /\ pc = "Complete"
    /\ IF opt.JSONPaths # <<>> /\ ~Parses(opt.JSONPaths[1])
       THEN /\ pc' = "Returned"
            /\ result' = "ErrParse"
            /\ stopBy' = "Complete"
            /\ cfg' = cfg
       ELSE /\ pc' = "Do"
            /\ cfg' = CompleteConfig(opt)
            /\ UNCHANGED <<result, stopBy>>
    /\ UNCHANGED <<r, ch, closed, sent, cancelled, cur, cache, out, errOut, last,
                   lastType, hist, opt>>

Complete ==
    /\ pc = "Complete"
    /\ IF \E i \in DOMAIN opt.JSONPaths : ~Parses(opt.JSONPaths[i])
       THEN /\ pc' = "Returned"
            /\ result' = "ErrParse"
            /\ stopBy' = "Complete"
            /\ cfg' = cfg
       ELSE /\ pc' = "Do"
            /\ cfg' = CompleteConfig(opt)
            /\ UNCHANGED <<result, stopBy>>
    /\ UNCHANGED <<r, ch, closed, sent, cancelled, cur, cache, out, errOut, last,
                   lastType, hist, opt>>

(***************************************************************************)
(* config.Run up to the subscription (lines 176-202).                      *)
(***************************************************************************)
\* Mutant: only the second resource is compared with the first.
multipleGVKsRequested_FirstTwo(infos) ==
    IF Len(infos) < 2 THEN FALSE
    ELSE infos[2] # infos[1]

multipleGVKsRequested(infos) ==
    IF Len(infos) < 2 THEN FALSE
    ELSE \E i \in DOMAIN infos : infos[i] # infos[1]

\* Lines 177-188: r.Err(), r.Infos() and the single-kind check.
Resolve ==
    /\ pc = "Do"
    /\ IF r.err
       THEN pc' = "Returned" /\ result' = "ErrBuilder" /\ stopBy' = "Do"
       ELSE IF multipleGVKsRequested(r.infos)
       THEN pc' = "Returned" /\ result' = "ErrMultipleGVKs" /\ stopBy' = "selection"
       ELSE pc' = "Watch" /\ UNCHANGED <<result, stopBy>>
    /\ UNCHANGED <<r, cfg, ch, closed, sent, cancelled, cur, cache, out, errOut, last,
                   lastType, hist, opt>>

\* Lines 190-202: r.Watch("0") fails or gives the watch; r is not read again.
Watch ==
    /\ pc = "Watch"
    /\ \E ok \in BOOLEAN :
         IF ok
         THEN pc' = "Until" /\ UNCHANGED <<result, stopBy>>
         ELSE pc' = "Returned" /\ result' = "ErrWatch" /\ stopBy' = "Watch"
    /\ r' = NoResult
    /\ UNCHANGED <<cfg, ch, closed, sent, cancelled, cur, cache, out, errOut, last,
                   lastType, hist, opt>>

(***************************************************************************)
(* The watch: it sends events on the result channel, one at a time, and    *)
(* may close the channel once the receiver has taken what it sent.         *)
(***************************************************************************)
Send(e) ==
    /\ pc \in {"Until", "Callback"}
    /\ ~closed
    /\ ch = <<>>
    /\ sent < MaxEvents
    /\ ch' = <<e>>
    /\ sent' = sent + 1
    /\ UNCHANGED <<opt, pc, r, cfg, closed, cancelled, cur, cache, out, errOut, result,
                   stopBy, last, lastType, hist>>

CloseChan ==
    /\ pc \in {"Until", "Callback"}
    /\ ~closed
    /\ ch = <<>>
    /\ closed' = TRUE
    /\ UNCHANGED <<opt, pc, r, cfg, ch, sent, cancelled, cur, cache, out, errOut, result,
                   stopBy, last, lastType, hist>>

(***************************************************************************)
(* The interrupt handler of interrupt.New(nil, cancel) (line 202): on a    *)
(* termination signal Handler.Signal runs cancel inside its sync.Once and, *)
(* the final handler being nil, calls os.Exit(1).                          *)
(***************************************************************************)
Signal ==
    /\ pc \in {"Until", "Callback"}
    /\ ~cancelled
    /\ cancelled' = TRUE
    /\ UNCHANGED <<opt, pc, r, cfg, ch, closed, sent, cur, cache, out, errOut, result,
                   stopBy, last, lastType, hist>>

Exit ==
    /\ cancelled
    /\ pc \in {"Until", "Callback", "Closing"}
    /\ pc' = "Exited"
    /\ result' = "exit(1)"
    /\ stopBy' = IF pc = "Closing" THEN stopBy ELSE "os.Exit"
    /\ UNCHANGED <<opt, r, cfg, ch, closed, sent, cancelled, cur, cache, out, errOut,
                   last, lastType, hist>>

\* fn returns err to intr.Run (line 284): the deferred Handler.Close waits
\* for a Signal in progress, which ends in os.Exit; otherwise Run returns err.
Return(err, by) ==
    /\ pc' = IF cancelled THEN "Closing" ELSE "Returned"
    /\ result' = err
    /\ stopBy' = by

(***************************************************************************)
(* watchtools.UntilWithoutRetry (line 205): a select on the result channel *)
(* and ctx.Done(); select takes any one of the cases that are ready.       *)
(***************************************************************************)
UntilReceive ==
    /\ pc = "Until"
    /\ ch # <<>>
    /\ cur' = <<Head(ch)>>
    /\ ch' = Tail(ch)
    /\ pc' = "Callback"
    /\ UNCHANGED <<opt, r, cfg, closed, sent, cancelled, cache, out, errOut, result,
                   stopBy, last, lastType, hist>>

UntilClosed ==
    /\ pc = "Until"
    /\ ch = <<>>
    /\ closed
    /\ Return("ErrWatchClosed", "closed")
    /\ UNCHANGED <<opt, r, cfg, ch, closed, sent, cancelled, cur, cache, out, errOut,
                   last, lastType, hist>>

UntilDone ==
    /\ pc = "Until"
    /\ cancelled
    /\ Return("ErrWaitTimeout", "ctx.Done")
    /\ UNCHANGED <<opt, r, cfg, ch, closed, sent, cancelled, cur, cache, out, errOut,
                   last, lastType, hist>>

(***************************************************************************)
(* The callback (lines 205-283), on the event UntilWithoutRetry received.  *)
(***************************************************************************)
Found(ev) == [n |-> last.n + 1, ev |-> ev, cache |-> cache, out |-> out,
              errOut |-> errOut, cancelled |-> cancelled, lastType |-> lastType]

\* Mutant: a payload of another type is skipped and the loop goes on.
CallbackNotUnstructured_Skipped(ev) ==
    /\ ~ev.object.unstructured
    /\ pc' = "Until"
    /\ UNCHANGED <<cache, out, errOut, lastType, result, stopBy>>

\* Lines 206-209: the payload is not an *unstructured.Unstructured.
CallbackNotUnstructured(ev) ==
    /\ ~ev.object.unstructured
    /\ Return("ErrNotUnstructured", "callback")
    /\ UNCHANGED <<cache, out, errOut, lastType>>

\* Mutant: the error event is printed and the loop goes on.
CallbackError_Continues(ev) ==
    /\ ev.object.unstructured
    /\ ev.type = "ERROR"
    /\ errOut' = Append(errOut, ev.object)
    /\ pc' = "Until"
    /\ UNCHANGED <<cache, out, lastType, result, stopBy>>

\* Lines 211-215: an error event is printed to ErrOut and ends the loop.
CallbackError(ev) ==
    /\ ev.object.unstructured
    /\ ev.type = "ERROR"
    /\ errOut' = Append(errOut, ev.object)
    /\ Return("nil", "callback")
    /\ UNCHANGED <<cache, out, lastType>>

\* Mutant: the delete of lines 278-280 is missing.
CallbackDiff_NoDelete(ev) ==
    /\ ev.object.unstructured
    /\ ev.type # "ERROR"
    /\ LET obj == ev.object
           uid == obj.uid
           rv == obj.resourceVersion
           inCache == IF uid \in DOMAIN cache THEN cache[uid] ELSE NewDiffObj(obj)
           d == diffWithPrevious(cfg, inCache, rv, obj)
       IN /\ out' = out \o d.written
          /\ cache' = [u \in (DOMAIN cache) \cup {uid} |->
                          IF u = uid THEN d.obj ELSE cache[u]]
          /\ lastType' = [lastType EXCEPT ![uid] = ev.type]
    /\ pc' = "Until"
    /\ UNCHANGED <<errOut, result, stopBy>>

\* Mutant: the state of a deleted identity is removed only if the event found
\* it in the cache.
CallbackDiff_DeleteKnownOnly(ev) ==
    /\ ev.object.unstructured
    /\ ev.type # "ERROR"
    /\ LET obj == ev.object
           uid == obj.uid
           rv == obj.resourceVersion
           inCache == IF uid \in DOMAIN cache THEN cache[uid] ELSE NewDiffObj(obj)
           d == diffWithPrevious(cfg, inCache, rv, obj)
       IN /\ out' = out \o d.written
          /\ cache' = IF ev.type = "DELETED" /\ uid \in DOMAIN cache
                      THEN [u \in (DOMAIN cache) \ {uid} |-> cache[u]]
                      ELSE [u \in (DOMAIN cache) \cup {uid} |->
                               IF u = uid THEN d.obj ELSE cache[u]]
          /\ lastType' = [lastType EXCEPT ![uid] = ev.type]
    /\ pc' = "Until"
    /\ UNCHANGED <<errOut, result, stopBy>>

\* Mutant: on a miss the state of another identity is taken, if there is one.
CallbackDiff_SharedState(ev) ==
    /\ ev.object.unstructured
    /\ ev.type # "ERROR"
    /\ LET obj == ev.object
           uid == obj.uid
           rv == obj.resourceVersion
           inCache == IF uid \in DOMAIN cache THEN cache[uid]
                      ELSE IF DOMAIN cache # {} THEN cache[CHOOSE u \in DOMAIN cache : TRUE]
                      ELSE NewDiffObj(obj)
           d == diffWithPrevious(cfg, inCache, rv, obj)
       IN /\ out' = out \o d.written
          /\ cache' = IF ev.type = "DELETED"
                      THEN [u \in (DOMAIN cache) \ {uid} |-> cache[u]]
                      ELSE [u \in (DOMAIN cache) \cup {uid} |->
                               IF u = uid THEN d.obj ELSE cache[u]]
          /\ lastType' = [lastType EXCEPT ![uid] = ev.type]
    /\ pc' = "Until"
    /\ UNCHANGED <<errOut, result, stopBy>>

\* Mutant: the delete of lines 278-280 comes before the lookup of line 220.
CallbackDiff_DeleteFirst(ev) ==
    /\ ev.object.unstructured
    /\ ev.type # "ERROR"
    /\ LET obj == ev.object
           uid == obj.uid
           rv == obj.resourceVersion
           inCache == IF uid \in DOMAIN cache /\ ev.type # "DELETED" THEN cache[uid]
                      ELSE NewDiffObj(obj)
           d == diffWithPrevious(cfg, inCache, rv, obj)
       IN /\ out' = out \o d.written
          /\ cache' = IF ev.type = "DELETED"
                      THEN [u \in (DOMAIN cache) \ {uid} |-> cache[u]]
                      ELSE [u \in (DOMAIN cache) \cup {uid} |->
                               IF u = uid THEN d.obj ELSE cache[u]]
          /\ lastType' = [lastType EXCEPT ![uid] = ev.type]
    /\ pc' = "Until"
    /\ UNCHANGED <<errOut, result, stopBy>>

\* Lines 217-282.
CallbackDiff(ev) ==
    /\ ev.object.unstructured
    /\ ev.type # "ERROR"
    /\ LET obj == ev.object
           uid == obj.uid
           rv == obj.resourceVersion
           inCache == IF uid \in DOMAIN cache THEN cache[uid] ELSE NewDiffObj(obj)
           d == diffWithPrevious(cfg, inCache, rv, obj)
       IN /\ out' = out \o d.written
          /\ cache' = IF ev.type = "DELETED"
                      THEN [u \in (DOMAIN cache) \ {uid} |-> cache[u]]
                      ELSE [u \in (DOMAIN cache) \cup {uid} |->
                               IF u = uid THEN d.obj ELSE cache[u]]
          /\ lastType' = [lastType EXCEPT ![uid] = ev.type]
    /\ pc' = "Until"
    /\ UNCHANGED <<errOut, result, stopBy>>

Callback ==
    /\ pc = "Callback"
    /\ LET ev == cur[1]
       IN /\ \/ CallbackNotUnstructured(ev)
             \/ CallbackError(ev)
             \/ CallbackDiff(ev)
          /\ last' = Found(ev)
          /\ hist' = Append(hist, ev)
    /\ cur' = <<>>
    /\ UNCHANGED <<opt, r, cfg, ch, closed, sent, cancelled>>

Next ==
    \/ Complete
    \/ Resolve
    \/ Watch
    \/ \E e \in Events : Send(e)
    \/ CloseChan
    \/ Signal
    \/ Exit
    \/ UntilReceive
    \/ UntilClosed
    \/ UntilDone
    \/ Callback

Spec == Init /\ [][Next]_vars

(***************************************************************************)
(* The command with its scheduling.  A goroutine that can run does run:    *)
(* the steps of the main goroutine (Complete, Run up to the subscription,  *)
(* the select of UntilWithoutRetry and the callback) and the os.Exit of    *)
(* the signal goroutine are weakly fair.  What the environment does, the   *)
(* events sent, the close of the channel and the signal, is not.  The run  *)
(* is one with valid flags and a selection of one kind, on a short         *)
(* alphabet of events.                                                     *)
(***************************************************************************)
LiveEvents ==
    {Event("ADDED", PodA("0", "Pending")), Event("MODIFIED", PodA("5", "Running")),
     Event("DELETED", PodA("5", "Running")), Event("ERROR", StatusObj),
     Event("ADDED", NotUnstructured)}

InitLive ==
    /\ Init
    /\ opt.JSONPaths = <<>>
    /\ r = [err |-> FALSE, infos |-> <<"v1/Pod">>]

NextLive ==
    \/ Complete
    \/ Resolve
    \/ Watch
    \/ \E e \in LiveEvents : Send(e)
    \/ CloseChan
    \/ Signal
    \/ Exit
    \/ UntilReceive
    \/ UntilClosed
    \/ UntilDone
    \/ Callback

\* The callback, once called, returns: the step of Callback as pc shows it.
\* Callback is enabled whenever pc = "Callback", and it is the one action
\* that takes pc from there to one of these values.
CallbackReturns == pc = "Callback" /\ pc' \in {"Until", "Returned", "Closing"}

SpecLive ==
    /\ InitLive
    /\ [][NextLive]_vars
    /\ WF_vars(Complete) /\ WF_vars(Resolve) /\ WF_vars(Watch)
    /\ WF_vars(UntilReceive) /\ WF_vars(UntilClosed) /\ WF_vars(UntilDone)
    /\ WF_pc(CallbackReturns)
    /\ WF_vars(Exit)

(***************************************************************************)
(* The normalizer on its own: Complete builds the config from the flags    *)
(* and the marshal closure of lines 228-264 is applied to one snapshot.    *)
(* The canonical text is left in `out`.                                    *)
(***************************************************************************)
NormPaths == {"$.status", "$['status']", "$.metadata.labels", "$.metadata.resourceVersion",
              "$.spec", "$.spec.containers[*].name", "$["}

NormOptions ==
    [JSONPaths : UNION {[1..n -> NormPaths] : n \in 0..MaxPaths},
     IgnoreLabelKeys : {<<>>, <<"x">>},
     IgnoreAnnotationKeys : {<<>>, <<"note">>}]

NormObjects ==
    {WithContainers(Unstructured("u1", "5", "Pod", "ns", "a", managed, labels, annos, phase),
                    names) :
        managed \in BOOLEAN,
        labels \in {NoMap, MapOf({"x"}, "1"), MapOf({"app", "x"}, "1")},
        annos \in {NoMap, MapOf({LastApplied}, "{...}"), MapOf({LastApplied, "note"}, "n")},
        phase \in {"", "Running"},
        names \in {<<>>, <<"c1", "c2">>}}

InitNorm ==
    /\ pc = "Complete"
    /\ opt \in NormOptions
    /\ cur \in {<<Event("ADDED", obj)>> : obj \in NormObjects}
    /\ r = NoResult
    /\ cfg = NoConfig
    /\ ch = <<>>
    /\ closed = FALSE
    /\ sent = 0
    /\ cancelled = FALSE
    /\ cache = <<>>
    /\ out = <<>>
    /\ errOut = <<>>
    /\ result = "running"
    /\ stopBy = "none"
    /\ last = NoLast
    /\ lastType = [u \in UIDs |-> "none"]
    /\ hist = <<>>

\* The closure of lines 228-264 applied to the snapshot.
Normalize ==
    /\ pc = "Do"
    /\ cur # <<>>
    /\ out' = marshal(cfg, cur[1].object)
    /\ pc' = "Normalized"
    /\ UNCHANGED <<opt, r, cfg, ch, closed, sent, cancelled, cur, cache, errOut, result,
                   stopBy, last, lastType, hist>>

NextNorm ==
    \/ Complete
    \/ Normalize

SpecNorm == InitNorm /\ [][NextNorm]_vars

(***************************************************************************)
(* Properties.  `last` is the event the callback handled last, with the    *)
(* cache and the sinks as the callback found them; `cache`, `out` and      *)
(* `errOut` are written by the callback alone, so between two callbacks    *)
(* they hold what the last one left.                                       *)
(***************************************************************************)
Handled == last.n > 0

HandledObject == Handled /\ last.ev.object.unstructured

Stopped == pc \in {"Returned", "Closing", "Exited"}

\* The lines the last callback wrote to Out.
Written == SubSeq(out, Len(last.out) + 1, Len(out))

\* The last event is for an identity that had a state with the event's revision.
SameRevision ==
    /\ HandledObject
    /\ last.ev.object.uid \in DOMAIN last.cache
    /\ last.cache[last.ev.object.uid].rv = last.ev.object.resourceVersion

\* C1, as stated: an event whose revision marker equals the stored revision of
\* its identity writes nothing to the output sink and leaves the identity's
\* stored state (revision and canonical text) as it was.
C1_SameRevisionLeavesState ==
    SameRevision =>
        /\ out = last.out
        /\ last.ev.object.uid \in DOMAIN cache
        /\ cache[last.ev.object.uid] = last.cache[last.ev.object.uid]

\* C1, amended: such an event writes nothing to the output sink and changes
\* neither the stored revision nor the stored canonical text; the entry stays
\* as it was, unless the event is a deletion, which removes the entry.
C1_SameRevisionNoOp ==
    SameRevision =>
        /\ out = last.out
        /\ IF last.ev.type = "DELETED"
           THEN last.ev.object.uid \notin DOMAIN cache
           ELSE /\ last.ev.object.uid \in DOMAIN cache
                /\ cache[last.ev.object.uid] = last.cache[last.ev.object.uid]

\* A modification with the stored revision and another canonical text was handled.
C1_Witness ==
    /\ SameRevision
    /\ last.ev.type = "MODIFIED"
    /\ marshal(cfg, last.ev.object) # last.cache[last.ev.object.uid].baseYAML

\* The last event has another revision than the stored one and normalizes to
\* the stored canonical text.
SameText ==
    /\ HandledObject
    /\ last.ev.type # "ERROR"
    /\ last.ev.object.uid \in DOMAIN last.cache
    /\ last.cache[last.ev.object.uid].rv # last.ev.object.resourceVersion
    /\ marshal(cfg, last.ev.object) = last.cache[last.ev.object.uid].baseYAML

\* C2: an event whose revision differs from the stored one and whose snapshot
\* normalizes to the stored canonical text writes nothing to the output sink.
C2_EqualTextWritesNothing == SameText => out = last.out

C2_Witness ==
    /\ SameText
    /\ last.ev.type = "MODIFIED"
    /\ last.out # <<>>

\* The block a diff against the empty text is rendered as: the two header
\* lines, the base labelled with revision "0", one hunk, every line of the
\* text as an insertion (an empty line of the text is the bare "+", which
\* is too short to be coloured), and the empty line that ends the block.
IsFreshBlock(lines, o, rv, yaml) ==
    /\ Len(lines) = Len(yaml) + 4
    /\ lines[1] = <<Red, "-", "-- ">> \o getNamePath(o, "0") \o <<Reset>>
    /\ lines[2] = <<Green, "+", "++ ">> \o getNamePath(o, rv) \o <<Reset>>
    /\ lines[3][1] = "@"
    /\ \A i \in 1..Len(yaml) :
          lines[3 + i] = IF yaml[i] = <<>> THEN <<"+">>
                         ELSE <<Green, "+">> \o yaml[i] \o <<Reset>>
    /\ lines[Len(lines)] = <<>>

\* The last event is an addition for an identity whose previous event was a deletion.
AddedAfterDeleted ==
    /\ HandledObject
    /\ last.ev.type = "ADDED"
    /\ last.lastType[last.ev.object.uid] = "DELETED"

\* C3: after a deletion event the identity has no entry; an added event that
\* follows for the same identity gets a fresh state: what is written is the
\* diff of the snapshot against the empty text, the base labelled revision "0",
\* and the stored state is that of this event alone (an event that carries no
\* revision writes nothing and leaves the baseline empty).
C3_DeletedThenFresh ==
    /\ (HandledObject /\ last.ev.type = "DELETED")
          => last.ev.object.uid \notin DOMAIN cache
    /\ AddedAfterDeleted =>
          LET obj == last.ev.object
              yaml == marshal(cfg, obj)
          IN /\ obj.uid \notin DOMAIN last.cache
             /\ obj.uid \in DOMAIN cache
             /\ IF obj.resourceVersion = ""
                THEN /\ Written = <<>>
                     /\ cache[obj.uid] = NewDiffObj(obj)
                ELSE /\ IsFreshBlock(Written, NewDiffObj(obj), obj.resourceVersion, yaml)
                     /\ cache[obj.uid].rv = obj.resourceVersion
                     /\ cache[obj.uid].baseYAML = yaml

\* An identity was observed, deleted and added again with a revision.
C3_Witness ==
    /\ AddedAfterDeleted
    /\ last.ev.object.resourceVersion # ""
    /\ last.n = 3
    /\ hist[1].object.unstructured
    /\ hist[1].object.uid = last.ev.object.uid
    /\ hist[1].type = "ADDED"

\* The scenario of C4: no focus path, and the two events are all the callback handled.
Scenario ==
    /\ pc \notin {"Complete", "Do", "Watch"}
    /\ Len(cfg.JSONPaths) = 0
    /\ hist = <<Event("ADDED", PodA("0", "Pending")), Event("MODIFIED", PodA("5", "Running"))>>

IsFromHeader(line) == Len(line) > 3 /\ line[2] = "-" /\ line[3] = "-- "

Blocks(lines) == Len(SelectSeq(lines, IsFromHeader))

\* The coloured lines of a block below its two header lines.
Changes(block) ==
    SelectSeq(SubSeq(block, 3, Len(block)), LAMBDA l : Len(l) > 1 /\ l[1] \in {Green, Red})

PodAPath(rv) == <<"Pod", "/", "a", "/", rv>>

PhaseChange ==
    << <<Red, "-", "  ", "  phase: ", "Pending", Reset>>,
       <<Green, "+", "  ", "  phase: ", "Running", Reset>> >>

\* C4, as stated: over the two events the output sink holds exactly one diff
\* block, labelled Pod/a/0 -> Pod/a/5, whose only +/- lines are the phase line.
C4_OneBlock ==
    Scenario =>
        /\ Blocks(out) = 1
        /\ out[1] = <<Red, "-", "-- ">> \o PodAPath("0") \o <<Reset>>
        /\ out[2] = <<Green, "+", "++ ">> \o PodAPath("5") \o <<Reset>>
        /\ Changes(out) = PhaseChange

\* C4, amended: over the two events the output sink holds exactly two diff
\* blocks: the first event's, labelled Pod/a/0 -> Pod/a/0, which adds every
\* line of the canonical text, and the second event's, labelled
\* Pod/a/0 -> Pod/a/5, whose only +/- lines are the phase line.
C4_TwoBlocks ==
    Scenario =>
        /\ Blocks(out) = 2
        /\ out = last.out \o Written
        /\ IsFreshBlock(last.out, NewDiffObj(PodA("0", "Pending")), "0",
                        marshal(cfg, PodA("0", "Pending")))
        /\ Blocks(Written) = 1
        /\ Written[1] = <<Red, "-", "-- ">> \o PodAPath("0") \o <<Reset>>
        /\ Written[2] = <<Green, "+", "++ ">> \o PodAPath("5") \o <<Reset>>
        /\ Changes(Written) = PhaseChange

C4_Witness == Scenario /\ pc = "Until" /\ ~cancelled

\* C5, as stated: after an event of type error the run ends with an error
\* result, never with success.
C5_ErrorEventEndsInError ==
    (Handled /\ last.ev.type = "ERROR" /\ Stopped) => result # "nil"

\* C6, as stated: an event of type error, whatever its payload, has its
\* payload written to the error sink, writes nothing to the output sink and
\* changes no registry entry.
C6_ErrorPayloadPrinted ==
    (Handled /\ last.ev.type = "ERROR") =>
        /\ errOut = Append(last.errOut, last.ev.object)
        /\ out = last.out
        /\ cache = last.cache

\* C7, as stated: when the interrupt is what ends the run, the run ends in
\* success, the result of Run being no error.
C7_InterruptEndsInSuccess ==
    (Stopped /\ stopBy \in {"ctx.Done", "os.Exit"}) => result = "nil"

\* C8, as stated: once the interrupt has cancelled the context, no event is
\* dispatched to the callback, so the registry and the sinks do not change.
C8_NoDispatchAfterCancel ==
    [][cancelled => /\ (pc' = "Callback" => pc = "Callback")
                    /\ UNCHANGED <<cache, out, errOut>>]_vars

\* C9: an event whose payload is not a structured resource ends the run with
\* an error, creates or changes no registry entry and writes nothing to the
\* output sink.
C9_MalformedPayloadIsFatal ==
    (Handled /\ ~last.ev.object.unstructured) =>
        /\ Stopped
        /\ result \in {"ErrNotUnstructured", "exit(1)"}
        /\ pc = "Returned" => result = "ErrNotUnstructured"
        /\ cache = last.cache
        /\ out = last.out

C9_Witness ==
    /\ Handled
    /\ ~last.ev.object.unstructured
    /\ pc = "Returned"
    /\ last.cache # <<>>
    /\ last.out # <<>>

\* The resolved selection holds two or more distinct group/version/kinds.
SeveralGVKs == ~r.err /\ Cardinality(Range(r.infos)) >= 2

\* C10: with two or more distinct group/version/kinds resolved, Run fails with
\* the selection error before r.Watch is called and before any event is sent
\* or handled; with fewer, the selection check does not reject the run.
C10_SingleKindPrecondition ==
    /\ (SeveralGVKs /\ stopBy # "Complete") =>
          /\ pc \in {"Complete", "Do", "Returned"}
          /\ pc = "Returned" => (result = "ErrMultipleGVKs" /\ stopBy = "selection")
          /\ sent = 0 /\ ~Handled /\ out = <<>> /\ cache = <<>>
    /\ ~SeveralGVKs => result # "ErrMultipleGVKs"

C10_Witness ==
    /\ SeveralGVKs
    /\ Len(r.infos) = 3
    /\ r.infos[1] = r.infos[2]
    /\ pc = "Returned"
    /\ result = "ErrMultipleGVKs"

(***************************************************************************)
(* Properties of the normalizer, stated of SpecNorm.                       *)
(***************************************************************************)
Normalized == pc = "Normalized"

Snapshot == cur[1].object

Mentions(line, tokens) == \E j \in DOMAIN line : line[j] \in tokens

\* C11, as stated: whatever the snapshot and the configuration, the canonical
\* text has no kubectl.kubernetes.io/last-applied-configuration annotation, no
\* resourceVersion field and no managedFields field.
C11_NoIgnoredField ==
    Normalized =>
        \A i \in DOMAIN out :
            ~Mentions(out[i], {LastApplied, "    managedFields: ", "    resourceVersion: "})

IsKeyLine(line, expr) ==
    /\ Len(line) >= 3
    /\ line[1] = "  <fieldByJsonPath = "
    /\ line[2] = expr

\* A line that opens a field of the snapshot directly under "object".
TopLevelField(line) ==
    /\ Len(line) > 0
    /\ \/ line[1] \in {"  apiVersion: ", "  kind: ", "  metadata:"}
       \/ Len(line) > 1 /\ line[1] = "  " /\ line[2] \in {"spec:", "status:"}

KeyLines(expr) == SelectSeq(out, LAMBDA l : IsKeyLine(l, expr))

\* C12: with at least one focus path configured, the canonical text is the
\* "object" key followed by one entry per focus path expression that has a
\* match on the redacted snapshot, under the key <fieldByJsonPath = expr>
\* and holding the first match only; no field of the snapshot is left under
\* "object", and a path without a match adds no entry and no error.
C12_FocusProjection ==
    (Normalized /\ opt.JSONPaths # <<>>) =>
        LET red == Redact(cfg, Snapshot)
            exprs == {ExprString(opt.JSONPaths[i]) : i \in DOMAIN opt.JSONPaths}
            second == {red.containers[j] : j \in 2..Len(red.containers)}
        IN /\ \A e \in exprs :
                  Len(KeyLines(e)) = IF PathCount(e, red) > 0 THEN 1 ELSE 0
           /\ \A i \in DOMAIN out :
                  \/ i = 1 /\ out[1] \in { <<"object:">>, <<"object: {}">> }
                  \/ i > 1 /\ ~TopLevelField(out[i])
           /\ \A i \in DOMAIN out :
                  (Len(out[i]) > 0 /\ out[i][1] = "  <fieldByJsonPath = ") =>
                      out[i][2] \in exprs
           /\ "$.spec.containers[*].name" \in exprs /\ red.containers # <<>> =>
                  /\ KeyLines("$.spec.containers[*].name")[1][4] = red.containers[1]
                  /\ ("$.spec" \notin exprs =>
                         \A i \in DOMAIN out : ~Mentions(out[i], second))
           /\ result = "running"

\* Two focus paths, one with two matches and one with none.
C12_Witness ==
    /\ Normalized
    /\ opt.JSONPaths = <<"$['status']", "$.spec.containers[*].name">>
    /\ Snapshot.phase = ""
    /\ Len(Snapshot.containers) = 2
    /\ Len(out) = 2

(***************************************************************************)
(* Properties of the whole command, stated of Spec.                        *)
(***************************************************************************)
BadPath == \E i \in DOMAIN opt.JSONPaths : ~Parses(opt.JSONPaths[i])

\* C13: a focus path that does not parse makes Complete fail, before the
\* selection is resolved and before the watch is opened; the parse error is
\* the result of no run that got as far as an event, and the paths the
\* callback works with are all parsed expressions.
C13_ParseErrorOnlyAtCompletion ==
    /\ BadPath =>
          /\ pc \in {"Complete", "Returned"}
          /\ pc = "Returned" => (result = "ErrParse" /\ stopBy = "Complete")
          /\ cfg = NoConfig
          /\ sent = 0
          /\ hist = <<>>
    /\ result = "ErrParse" => (BadPath /\ pc = "Returned")
    /\ pc \in {"Do", "Watch", "Until", "Callback"} =>
          \A i \in DOMAIN cfg.JSONPaths : cfg.JSONPaths[i] \in Range(PathOrder)

\* Complete has failed on the second of two paths.
C13_Witness ==
    /\ pc = "Returned"
    /\ result = "ErrParse"
    /\ Len(opt.JSONPaths) = 2
    /\ Parses(opt.JSONPaths[1])

\* C14: an identity has an entry in the cache exactly when the callback has
\* handled an added, modified or deleted event for it and the last of these
\* was not a deletion; the cache is a map from the identity to one state, and
\* the state is the one of the identity it is stored under.
C14_EntryIffLastEventKeeps ==
    /\ DOMAIN cache \subseteq UIDs
    /\ \A u \in UIDs :
          /\ u \in DOMAIN cache <=> lastType[u] \in {"ADDED", "MODIFIED"}
          /\ lastType[u] = "none" <=>
                ~\E i \in DOMAIN hist :
                    hist[i].object.unstructured /\ hist[i].type # "ERROR"
                        /\ hist[i].object.uid = u
          /\ lastType[u] # "none" =>
                LET mine == SelectSeq(hist, LAMBDA e : e.object.unstructured
                                          /\ e.type # "ERROR" /\ e.object.uid = u)
                IN lastType[u] = mine[Len(mine)].type

\* One identity has an entry while the other, whose deletion was handled
\* last, has none.
C14_Witness ==
    /\ last.n = 3
    /\ lastType["u2"] = "DELETED"
    /\ "u2" \notin DOMAIN cache
    /\ "u1" \in DOMAIN cache
    /\ hist[3].type = "DELETED"

\* The last event is an added, modified or deleted event with an object.
HandledChange == HandledObject /\ last.ev.type # "ERROR"

\* The events of identity u the callback handled before the last one.
Earlier(u) ==
    SelectSeq(SubSeq(hist, 1, Len(hist) - 1),
              LAMBDA e : e.object.unstructured /\ e.type # "ERROR" /\ e.object.uid = u)

\* The revision the base side of a block for u is labelled with: that of the
\* event handled before for u, "0" when that event was a deletion, carried no
\* revision, or there was none.
FromRevision(u) ==
    LET mine == Earlier(u)
    IN IF mine = <<>> THEN "0"
       ELSE IF mine[Len(mine)].type = "DELETED" THEN "0"
       ELSE IF mine[Len(mine)].object.resourceVersion = "" THEN "0"
       ELSE mine[Len(mine)].object.resourceVersion

FromHeader(o, rv) == <<Red, "-", "-- ">> \o getNamePath(o, rv) \o <<Reset>>

ToHeader(o, rv) == <<Green, "+", "++ ">> \o getNamePath(o, rv) \o <<Reset>>

\* C15: after an added or modified event the stored revision of its identity
\* is the event's revision, also when nothing was written; and whatever an
\* event writes is one block, its base side labelled with the revision of the
\* event handled before for the identity ("0" when none is stored) and its
\* other side with the revision of the event itself.
C15_RevisionFollowsEvents ==
    HandledChange =>
        LET obj == last.ev.object
        IN /\ last.ev.type # "DELETED" =>
                  /\ obj.uid \in DOMAIN cache
                  /\ cache[obj.uid].rv = obj.resourceVersion
           /\ Written # <<>> =>
                  /\ Blocks(Written) = 1
                  /\ Written[1] = FromHeader(NewDiffObj(obj), FromRevision(obj.uid))
                  /\ Written[2] = ToHeader(NewDiffObj(obj), obj.resourceVersion)

\* A block follows an event of the same identity whose diff was empty: its
\* base side carries the revision of that event.
C15_Witness ==
    /\ HandledChange
    /\ last.n = 3
    /\ Written # <<>>
    /\ \A i \in 1..3 : hist[i].object.unstructured /\ hist[i].object.uid = "u1"
    /\ hist[1].object.resourceVersion # hist[2].object.resourceVersion
    /\ marshal(cfg, hist[1].object) = marshal(cfg, hist[2].object)
    /\ hist[2].type = "MODIFIED"
    /\ FromRevision("u1") = hist[2].object.resourceVersion

\* The last event is the first one handled for an identity without an entry,
\* and not a deletion.
FirstSeen ==
    /\ HandledChange
    /\ last.ev.type # "DELETED"
    /\ last.ev.object.uid \notin DOMAIN last.cache

\* C16, as stated: the first event handled for an identity without an entry
\* leaves, unless it is a deletion, the normalization of its snapshot as the
\* stored text and its revision as the stored revision, whatever the revision.
C16_FirstEventSetsBaseline ==
    FirstSeen =>
        /\ last.ev.object.uid \in DOMAIN cache
        /\ cache[last.ev.object.uid].baseYAML = marshal(cfg, last.ev.object)
        /\ cache[last.ev.object.uid].rv = last.ev.object.resourceVersion

\* C16, amended: this holds of an event that carries a revision; an event
\* whose revision is empty leaves the new state as it was built, with no
\* stored text.
C16_FirstEventWithRevisionSetsBaseline ==
    FirstSeen =>
        LET obj == last.ev.object
        IN /\ obj.uid \in DOMAIN cache
           /\ cache[obj.uid].rv = obj.resourceVersion
           /\ cache[obj.uid].baseYAML =
                 IF obj.resourceVersion = "" THEN <<>> ELSE marshal(cfg, obj)
           /\ obj.resourceVersion = "" => Written = <<>>

\* A first event with a revision, of an identity that was deleted before.
C16_Witness ==
    /\ FirstSeen
    /\ last.ev.object.resourceVersion = "5"
    /\ last.lastType[last.ev.object.uid] = "DELETED"
    /\ cache[last.ev.object.uid].baseYAML # <<>>

\* The state the events evs of one identity leave when they are handled on
\* their own, from an empty cache: whether the identity has an entry, and the
\* stored revision and text.
RECURSIVE Alone(_, _)
Alone(c, evs) ==
    IF evs = <<>> THEN [has |-> FALSE, o |-> NewDiffObj(StatusObj)]
    ELSE LET before == Alone(c, SubSeq(evs, 1, Len(evs) - 1))
             obj == evs[Len(evs)].object
             inCache == IF before.has THEN before.o ELSE NewDiffObj(obj)
         IN [has |-> evs[Len(evs)].type # "DELETED",
             o |-> IF inCache.rv = obj.resourceVersion THEN inCache
                   ELSE [inCache EXCEPT !.baseYAML = marshal(c, obj),
                                        !.rv = obj.resourceVersion]]

\* C17: an event for identity X leaves the entry of every other identity as
\* it was, and what it writes and stores for X is what it gives on the state
\* that the events handled for X before leave on their own, wherever the
\* events of other identities came in between.
C17_OtherIdentitiesUntouched ==
    HandledChange =>
        LET obj == last.ev.object
            x == obj.uid
            before == Alone(cfg, Earlier(x))
            d == diffWithPrevious(cfg, IF before.has THEN before.o ELSE NewDiffObj(obj),
                                  obj.resourceVersion, obj)
        IN /\ \A u \in UIDs \ {x} :
                  /\ u \in DOMAIN cache <=> u \in DOMAIN last.cache
                  /\ u \in DOMAIN cache => cache[u] = last.cache[u]
           /\ Written = d.written
           /\ x \in DOMAIN cache <=> last.ev.type # "DELETED"
           /\ x \in DOMAIN cache => cache[x] = d.obj

\* A block is written for one identity after an event of the other came in
\* between its two events.
C17_Witness ==
    /\ HandledChange
    /\ last.n = 3
    /\ Written # <<>>
    /\ hist[1].object.unstructured /\ hist[1].object.uid = "u1"
    /\ hist[2].object.unstructured /\ hist[2].object.uid = "u2"
    /\ hist[3].object.uid = "u1"
    /\ "u2" \in DOMAIN cache
    /\ FromRevision("u1") = hist[1].object.resourceVersion

\* A written line without the escape sequences around it, if it has them.
Plain(line) ==
    IF Len(line) > 1 /\ line[1] \in {Green, Red} /\ line[Len(line)] = Reset
    THEN SubSeq(line, 2, Len(line) - 1)
    ELSE line

Begins(line, c) == Len(line) > 0 /\ line[1] = c

\* The "--- from" and "+++ to" lines of a block.
IsHeaderText(line) ==
    /\ Len(line) > 1
    /\ \/ line[1] = "-" /\ line[2] = "-- "
       \/ line[1] = "+" /\ line[2] = "++ "

\* C18, as stated: of the lines written, those beginning with "+" are wrapped
\* in the green sequence, those beginning with "-" in the red one, and the
\* others, the context lines and the from/to header lines, are written as
\* they are.
C18_HeadersUncoloured ==
    \A i \in DOMAIN out :
        LET text == Plain(out[i])
        IN IF IsHeaderText(text) THEN out[i] = text
           ELSE IF Begins(text, "+") THEN out[i] = <<Green>> \o text \o <<Reset>>
           ELSE IF Begins(text, "-") THEN out[i] = <<Red>> \o text \o <<Reset>>
           ELSE out[i] = text

\* C18, amended: of the lines a callback writes, a line of more than one
\* character is wrapped in the green sequence when it begins with "+", the
\* "+++" header included, and in the red one when it begins with "-", the
\* "---" header included; every other line, a context line, an "@@" line, a
\* bare "+" or "-" and the empty line that ends the block, is written as it
\* is.
C18_LongSignedLinesColoured ==
    \A i \in DOMAIN Written :
        LET line == Written[i]
            text == Plain(line)
        IN IF Len(text) > 1 /\ text[1] = "+" THEN line = <<Green>> \o text \o <<Reset>>
           ELSE IF Len(text) > 1 /\ text[1] = "-" THEN line = <<Red>> \o text \o <<Reset>>
           ELSE /\ line = text
                /\ \/ text \in { <<>>, <<"+">>, <<"-">> }
                   \/ text[1] \in {" ", "@"}

\* The output holds headers, an inserted empty line, a deleted line and a
\* context line.
C18_Witness ==
    /\ \E i \in DOMAIN out : out[i] = <<"+">>
    /\ \E i \in DOMAIN out : Begins(out[i], Red) /\ ~IsHeaderText(Plain(out[i]))
    /\ \E i \in DOMAIN out : Begins(out[i], Green) /\ IsHeaderText(Plain(out[i]))
    /\ \E i \in DOMAIN out : Begins(out[i], " ")
    /\ \E i \in DOMAIN out : Begins(out[i], "@")

(***************************************************************************)
(* Properties of the event loop, stated of SpecLive.                       *)
(***************************************************************************)
InLoop == pc \in {"Until", "Callback"}

\* The callback holds an error event or a payload that is not unstructured.
FatalEventInCallback ==
    /\ pc = "Callback"
    /\ ~cur[1].object.unstructured \/ cur[1].type = "ERROR"

\* What ended the loop, for a run that entered it.
StoppedByCause ==
    (Stopped /\ stopBy \notin {"Complete", "selection", "Watch"}) =>
        \/ stopBy = "closed" /\ closed /\ ch = <<>>
        \/ stopBy = "callback" /\ Handled /\ ~HandledChange
        \/ stopBy \in {"ctx.Done", "os.Exit"} /\ cancelled

\* C19: the loop stops only when the channel is closed and drained, the
\* callback has handled an error event or a payload that is not unstructured,
\* or the context is cancelled by the interrupt; an added, modified or deleted
\* event with an object leaves the loop running; each cause, once there,
\* leads to the stop; and after the stop the callback handles nothing more.
C19_StopsExactlyOnCause ==
    /\ [](StoppedByCause)
    /\ [][(pc = "Callback" /\ ~FatalEventInCallback /\ pc' # "Callback")
             => pc' \in {"Until", "Exited"} /\ (pc' = "Exited" => cancelled)]_vars
    /\ [][Stopped => (Stopped' /\ UNCHANGED <<hist, cache, out, errOut, last>>)]_vars
    /\ (InLoop /\ closed) ~> Stopped
    /\ (InLoop /\ cancelled) ~> Stopped
    /\ FatalEventInCallback ~> Stopped

\* The loop has stopped on the closed channel after two events that left it
\* running.
C19_Witness ==
    /\ Stopped
    /\ stopBy = "closed"
    /\ last.n = 2
    /\ HandledChange

(***************************************************************************)
(* Deletion events, stated of Spec.                                        *)
(***************************************************************************)
HandledDeletion == HandledChange /\ last.ev.type = "DELETED"

\* The state the deletion event found for its identity, or the new one built
\* for an identity without an entry.
StoredBefore ==
    IF last.ev.object.uid \in DOMAIN last.cache
    THEN last.cache[last.ev.object.uid]
    ELSE NewDiffObj(last.ev.object)

\* C20: a deletion event whose revision differs from the stored one appends
\* to the output the diff of the stored baseline, as it was before the event,
\* against the normalization of the deleted object, and the identity has no
\* entry afterwards; for an identity without an entry the stored revision is
\* the empty one of the new state and the baseline is the empty text, so an
\* event with a revision writes the whole text as a block based on "0".
C20_DeletionObservedThenRemoved ==
    HandledDeletion =>
        LET obj == last.ev.object
            stored == StoredBefore
            yaml == marshal(cfg, obj)
        IN /\ obj.uid \notin DOMAIN cache
           /\ Len(out) >= Len(last.out) /\ SubSeq(out, 1, Len(last.out)) = last.out
           /\ IF stored.rv = obj.resourceVersion THEN Written = <<>>
              ELSE /\ Written = diff(stored, stored.rv, stored.baseYAML,
                                     obj.resourceVersion, yaml)
                   /\ yaml # stored.baseYAML =>
                         /\ Written[1] = FromHeader(stored, IF stored.rv = "" THEN "0"
                                                            ELSE stored.rv)
                         /\ Written[2] = ToHeader(stored, obj.resourceVersion)
                   /\ yaml = stored.baseYAML => Written = <<>>
           /\ (obj.uid \notin DOMAIN last.cache /\ obj.resourceVersion # "") =>
                  IsFreshBlock(Written, NewDiffObj(obj), obj.resourceVersion, yaml)

\* A deletion that carries a change against the stored baseline: the change
\* is written and the entry is gone.
C20_Witness ==
    /\ HandledDeletion
    /\ last.ev.object.uid \in DOMAIN last.cache
    /\ last.cache[last.ev.object.uid].baseYAML # <<>>
    /\ Changes(Written) # <<>>
    /\ Len(Changes(Written)) < Len(marshal(cfg, last.ev.object))
    /\ last.ev.object.uid \notin DOMAIN cache

====
